---- MODULE Spec2Model ----
(***************************************************************************)
(* A model of pipeline.py: the rate_limiter decorator, the script          *)
(* dispatch and audio assembly of text_to_speech, combine_audio_segments    *)
(* and the driver pdf_to_podcast.                                           *)
(*                                                                          *)
(* Strings are sequences of one-character strings, so that `in`,            *)
(* str.replace, str.strip and str.split are computed as Python computes     *)
(* them.  Audio is a record of its duration in milliseconds and of the      *)
(* (voice, text) pairs it was assembled from.                               *)
(***************************************************************************)
EXTENDS Integers, Sequences, FiniteSets, TLC

(***************************************************************************)
(* Bounds of the model.                                                     *)
(***************************************************************************)
MaxThreads == 2         \* threads that call a rate-limited operation
MaxCalls == 5           \* calls of a rate-limited operation in a behaviour
TickStep == 40          \* seconds by which the wall clock advances in one step
MaxTicks == 3           \* clock steps in a behaviour
MaxLines == 2           \* lines of a generated script (ExtraScripts apart)
DurationStepMs == 20000 \* clip durations are multiples of this, in ms
MaxClipSteps == 2       \* a clip lasts 1..MaxClipSteps steps
MaxFiles == 3           \* files passed to combine_audio_segments directly
MaxOver == 2            \* characters by which a long response misses the budget

(***************************************************************************)
(* Program constants.                                                       *)
(***************************************************************************)
Minute == 60                        \* time.sleep(60 - (time.time() % 60))
DefaultCeiling == 15                \* rate_limiter(max_requests_per_minute=15)
MAX_SCRIPT_CHARACTERS == 2000
MAX_AUDIO_DURATION_MS == 60000
TEMP_AUDIO_PATH == "temp_audio.mp3"
OUTPUT_AUDIO_FILE_PATH == "podcast.mp3"

Threads == 1..MaxThreads

(***************************************************************************)
(* Python strings, as sequences of characters.                              *)
(***************************************************************************)
HostMarker == <<"H", "o", "s", "t", ":">>               \* "Host:"
GuestMarker == <<"G", "u", "e", "s", "t", ":">>         \* "Guest:"
Newline == "\n"
Whitespace == {" ", "\n", "\t", "\r"}

\* s[i:i+len(m)] == m
MatchesAt(s, m, i) ==
    /\ i + Len(m) - 1 <= Len(s)
    /\ \A j \in 1..Len(m) : s[i + j - 1] = m[j]

\* m in s
Contains(s, m) == \E i \in 1..Len(s) : MatchesAt(s, m, i)

RECURSIVE RemoveFrom(_, _, _)
\* s[i:].replace(m, ""): the occurrences found in one scan from the left
RemoveFrom(s, m, i) ==
    IF i > Len(s) THEN <<>>
    ELSE IF MatchesAt(s, m, i) THEN RemoveFrom(s, m, i + Len(m))
    ELSE <<s[i]>> \o RemoveFrom(s, m, i + 1)

\* s.replace(m, "")
Remove(s, m) == RemoveFrom(s, m, 1)

RECURSIVE LStrip(_)
LStrip(s) ==
    IF s # <<>> /\ Head(s) \in Whitespace THEN LStrip(Tail(s)) ELSE s

RECURSIVE RStrip(_)
RStrip(s) ==
    IF s # <<>> /\ s[Len(s)] \in Whitespace
    THEN RStrip(SubSeq(s, 1, Len(s) - 1)) ELSE s

\* s.strip()
Strip(s) == RStrip(LStrip(s))

RECURSIVE SplitFrom(_, _, _)
\* s.split("\n"), cur being the piece collected since the last separator
SplitFrom(s, i, cur) ==
    IF i > Len(s) THEN <<cur>>
    ELSE IF s[i] = Newline THEN <<cur>> \o SplitFrom(s, i + 1, <<>>)
    ELSE SplitFrom(s, i + 1, Append(cur, s[i]))

\* s.split("\n"): "" gives [""]
SplitLines(s) == SplitFrom(s, 1, <<>>)

\* line 164 as response.text[-MAX_SCRIPT_CHARACTERS:]
TruncateKeepsEnd(s) ==
    IF Len(s) > MAX_SCRIPT_CHARACTERS
    THEN SubSeq(s, Len(s) - MAX_SCRIPT_CHARACTERS + 1, Len(s)) ELSE s

\* line 164: response.text[:MAX_SCRIPT_CHARACTERS]
Truncate(s) ==
    IF Len(s) > MAX_SCRIPT_CHARACTERS THEN SubSeq(s, 1, MAX_SCRIPT_CHARACTERS) ELSE s

\* line 174: re.sub(r'[*]', '', script)
clean_script(script) == SelectSeq(script, LAMBDA c : c # "*")

RECURSIVE Flatten(_)
\* the concatenation of a sequence of strings
Flatten(ss) == IF ss = <<>> THEN <<>> ELSE Head(ss) \o Flatten(Tail(ss))

RECURSIVE JoinLines(_)
\* "\n".join(lines)
JoinLines(ls) ==
    IF ls = <<>> THEN <<>>
    ELSE IF Len(ls) = 1 THEN ls[1]
    ELSE ls[1] \o <<Newline>> \o JoinLines(Tail(ls))

(***************************************************************************)
(* The voice table (lines 14-37).                                           *)
(***************************************************************************)
\* a dict literal in which two ids have the same display name
VoiceItemsSharedName == <<
    <<"cjVigY5qzO86Huf0OWal", "Eric">>,
    <<"iP95p4xoKVk53GoZ742B", "Eric">>,
    <<"nPczCjzI2devNBz1zQrb", "Brian">> >>

\* the items of the dict literal of lines 14-35, in source order
VoiceItems == <<
    <<"9BWtsMINqrJLrRacOk9x", "Aria">>,
    <<"CwhRBWXzGAHq8TQ4Fs17", "Roger">>,
    <<"EXAVITQu4vr4xnSDxMaL", "Sarah">>,
    <<"FGY2WhTYpPnrIDTdsKH5", "Laura">>,
    <<"IKne3meq5aSn9XLyUdCD", "Charlie">>,
    <<"JBFqnCBsd6RMkjVDRZzb", "George">>,
    <<"N2lVS1w4EtoT3dr4eOWO", "Callum">>,
    <<"SAz9YHcvj6GT2YYXdXww", "River">>,
    <<"TX3LPaxmHKxFdv7VOQHJ", "Liam">>,
    <<"XB0fDUnXU5powFXDhCwa", "Charlotte">>,
    <<"Xb7hH8MSUJpSbSDYk0k2", "Alice">>,
    <<"XrExE9yKIg1WjnnlVkGX", "Matilda">>,
    <<"bIHbv24MWmeRgasZH58o", "Will">>,
    <<"cgSgspJ2msm6clMCkdW9", "Jessica">>,
    <<"cjVigY5qzO86Huf0OWal", "Eric">>,
    <<"iP95p4xoKVk53GoZ742B", "Chris">>,
    <<"nPczCjzI2devNBz1zQrb", "Brian">>,
    <<"onwK4e9ZLuTAKqWW03F9", "Daniel">>,
    <<"pFZP5JQG7iQjIQuC4Bku", "Lily">>,
    <<"pqHfZKP75CvOlQylNhV4", "Bill">> >>

\* a dict built from items: a later item replaces an earlier one with its key
DictOf(items) ==
    [k \in {items[i][1] : i \in DOMAIN items} |->
        LET last == CHOOSE i \in DOMAIN items :
                        /\ items[i][1] = k
                        /\ \A j \in DOMAIN items : items[j][1] = k => j <= i
        IN items[last][2]]

\* line 37: {v: k for k, v in voice_id_to_name.items()}
Inverse(items) == DictOf([i \in DOMAIN items |-> <<items[i][2], items[i][1]>>])

\* the items of a table from which the voices named in `gone` were taken out
ItemsWithout(gone) == SelectSeq(VoiceItems, LAMBDA it : it[2] \notin gone)

\* lines 229-230
host_voice_name == "Eric"
guest_voice_name == "Brian"

\* The tables a run is started with: the table of the source, and that table
\* with the host's or the guest's voice taken out (the case in which the
\* lookups of lines 231-232 fail).
TableEdits == {{}, {host_voice_name}, {guest_voice_name}}

(***************************************************************************)
(* Scripts: the responses of the generation capability.                     *)
(***************************************************************************)
Sp == <<" ">>
Star == <<"*">>
Hi == <<"h", "i">>
Yo == <<"y", "o">>
PieceHo == <<"H", "o">>
PieceSt == <<"s", "t", ":">>

\* The lines a response is made of, each as the fragments it is written with.
HostLine == <<HostMarker, Sp, Hi>>                          \* "Host: hi"
GuestLine == <<Star, Star, GuestMarker, Star, Star, Sp, Yo>> \* "**Guest:** yo"
PlainLine == <<Hi, Sp, Yo>>                                 \* "hi yo"
HostGuestLine == <<HostMarker, Sp, GuestMarker, Sp, Hi>>    \* "Host: Guest: hi"
GuestHostLine == <<GuestMarker, Sp, HostMarker, Sp, Yo>>    \* "Guest: Host: yo"
SplicedLine == <<PieceHo, HostMarker, PieceSt>>             \* "HoHost:st:"

SampleLines == {HostLine, GuestLine, PlainLine, HostGuestLine}

\* further responses: the dialogue shape the prompt asks for, longer than
\* MaxLines, a line in which removing a marker joins the pieces of one, and
\* a line with both markers, "Guest:" first
ExtraScripts == {<<HostLine, GuestLine, HostLine>>,
                 <<HostLine, GuestLine, HostLine, GuestLine>>,
                 <<SplicedLine>>,
                 <<GuestHostLine>>}

\* a response of n characters, each of them the last digit of its position
\* moved by k
LongText(n, k) == [i \in 1..n |-> ToString((i + k) % 10)]

\* responses of one line whose length is within MaxOver of the budget
LongResponses ==
    {<< <<LongText(n, k)>> >> :
        n \in (MAX_SCRIPT_CHARACTERS - MaxOver)..(MAX_SCRIPT_CHARACTERS + MaxOver),
        k \in 0..MaxOver}

\* sequences of at most n elements of S
SeqsUpTo(S, n) == UNION {[1..k -> S] : k \in 0..n}

\* the text of a response written as the lines ls
TextOf(ls) == JoinLines([i \in DOMAIN ls |-> Flatten(ls[i])])

(***************************************************************************)
(* Audio: pydub's AudioSegment, and the files that hold one.                *)
(***************************************************************************)
\* the durations a synthesized clip may have, in ms
ClipDurations == {k * DurationStepMs : k \in 1..MaxClipSteps}

\* AudioSegment.empty()
EmptyAudio == [dur |-> 0, clips |-> <<>>]

\* a clip: the audio of one synthesis call or of one given file
Clip(id, d) == [dur |-> d, clips |-> <<id>>]

\* combined += segment
Concat(a, b) == [dur |-> a.dur + b.dur, clips |-> a.clips \o b.clips]

\* combined[:ms]
Slice(a, ms) == [dur |-> IF a.dur > ms THEN ms ELSE a.dur, clips |-> a.clips]

\* lines 201 and 217 with the slice left out
LimitNoSlice(a) == a

\* lines 201-202 and 217-218: the audio after the check that follows an append
Limit(a) == IF a.dur > MAX_AUDIO_DURATION_MS THEN Slice(a, MAX_AUDIO_DURATION_MS) ELSE a

\* lines 201 and 217: len(combined) > MAX_AUDIO_DURATION_MS
OverCeiling(a) == a.dur > MAX_AUDIO_DURATION_MS

RECURSIVE AssembleFrom(_, _, _)
\* lines 199-203: the loop over audio_segments from index i on, combined
\* being the audio so far; the result is the audio and the clips appended
AssembleFrom(segs, i, combined) ==
    IF i > Len(segs) THEN [audio |-> combined, appended |-> i - 1]
    ELSE LET next == Concat(combined, segs[i]) IN
         IF OverCeiling(next) THEN [audio |-> Limit(next), appended |-> i]
         ELSE AssembleFrom(segs, i + 1, next)

\* lines 198-203
Assemble(segs) == AssembleFrom(segs, 1, EmptyAudio)

\* the contents of a path: no file, a file that does not decode, or audio
NoFile == [kind |-> "none", audio |-> EmptyAudio]
Corrupt == [kind |-> "corrupt", audio |-> EmptyAudio]
AudioFile(a) == [kind |-> "audio", audio |-> a]

\* the paths combine_audio_segments is given when it is called on its own
InputPath(i) == "in" \o ToString(i) \o ".mp3"

VARIABLES
    max_requests_per_minute,  \* the argument of rate_limiter(...)
    requests_made,            \* the module-level counter
    lock,                     \* the thread holding `lock`, 0 when free
    rl_pc,                    \* per thread: position in wrapper()
    wake,                     \* per thread: time at which time.sleep() may return
    now,                      \* time.time(), in seconds
    n_calls,                  \* history: calls of wrapper() begun so far
    calls,                    \* history: one record per call, in increment order
    cur,                      \* history: per thread, the index of its call in calls
    starts,                   \* history: times at which func() was invoked
    result                    \* per thread: what wrapper() last returned to it

rl_vars == <<max_requests_per_minute, requests_made, lock, rl_pc, wake, now,
             n_calls, calls, cur, starts, result>>

VARIABLES
    voice_id_to_name,         \* the dict of lines 14-35
    name_to_voice_id,         \* the dict of line 37
    files,                    \* the file system: path -> contents
    entry,                    \* per thread: the function it was started in
    pc,                       \* per thread: the statement it is at
    frame,                    \* per thread: the local variables
    hist                      \* per thread: history of what it did

pipe_vars == <<voice_id_to_name, name_to_voice_id, files, entry, pc, frame, hist>>

vars == <<rl_vars, pipe_vars>>

(***************************************************************************)
(* The state of a thread that runs the pipeline.                            *)
(***************************************************************************)
\* the output_audio_path that the run of thread r is called with: that of
\* line 260 for thread 1, and another one for every other thread
OutputPathOf(r) ==
    IF r = 1 THEN OUTPUT_AUDIO_FILE_PATH ELSE "podcast" \o ToString(r) \o ".mp3"

Paths ==
    {TEMP_AUDIO_PATH} \cup {OutputPathOf(r) : r \in Threads}
        \cup {InputPath(i) : i \in 1..MaxFiles}

\* the local variables of pdf_to_podcast, text_to_speech and
\* combine_audio_segments before any of them is assigned
NoFrame == [
    raw_text |-> "", cleaned_text |-> "",
    host_voice_id |-> "", guest_voice_id |-> "",
    host_voice_name |-> "", guest_voice_name |-> "",
    script |-> <<>>, speaker_parts |-> <<>>, part |-> 1, audio_segments |-> <<>>,
    audio_files |-> <<>>, output_path |-> OUTPUT_AUDIO_FILE_PATH, file |-> 1,
    combined |-> EmptyAudio, exc |-> "" ]

\* what a thread has done so far
NoHist == [
    lines |-> <<>>,          \* the lines the generated response was written with
    faults |-> {},           \* the failures that happened
    gen_calls |-> 0,         \* calls of chat_session.send_message
    synth_calls |-> <<>>,    \* calls of client.generate: part, voice, text
    steps |-> <<>>,          \* statements of pdf_to_podcast executed, in order
    log |-> <<>>,            \* messages logged
    tts_appended |-> -1,     \* clips text_to_speech appended before exporting
    tts_exported |-> FALSE,  \* text_to_speech exported its audio
    cmb_appended |-> -1,     \* files combine_audio_segments appended
    cmb_exported |-> FALSE,  \* combine_audio_segments exported its audio
    cmb_returned |-> FALSE,  \* combine_audio_segments returned
    caught_at |-> -1,        \* Len(steps) when line 255 caught an exception
    escaped |-> FALSE ]      \* an exception left pdf_to_podcast

(***************************************************************************)
(* rate_limiter (lines 88-102).                                             *)
(***************************************************************************)

\* line 94 with the comparison weakened: the ceiling-th call already waits
ExceedsCeilingAtCeiling(n, max) == n >= max

\* line 94: requests_made > max_requests_per_minute
ExceedsCeiling(n, max) == n > max

\* line 96: the time at which a sleep of 60 - (time.time() % 60) seconds ends
NextBoundary(t) == t + (Minute - (t % Minute))

\* the arguments thread t calls the rate-limited function with: its own
ArgsOf(t) == [caller |-> t]

\* what func returns when it is called with the arguments a
FuncResult(a) == [func_of |-> a]

\* no call of wrapper() has returned yet
NoResult == [func_of |-> [caller |-> 0]]

\* the ceilings tried for rate_limiter(n): those that MaxCalls calls cross and
\* then fill again
Ceilings == {c \in 1..MaxCalls : 2 * c + 1 <= MaxCalls}

InitRL ==
    /\ max_requests_per_minute \in Ceilings
    /\ requests_made = 0
    /\ lock = 0
    /\ rl_pc = [t \in Threads |-> "idle"]
    /\ wake = [t \in Threads |-> 0]
    /\ now = 0
    /\ n_calls = 0
    /\ calls = <<>>
    /\ cur = [t \in Threads |-> 0]
    /\ starts = <<>>
    /\ result = [t \in Threads |-> NoResult]
    /\ voice_id_to_name = DictOf(VoiceItems)
    /\ name_to_voice_id = Inverse(VoiceItems)
    /\ files = [p \in Paths |-> NoFile]
    /\ entry = [t \in Threads |-> "none"]
    /\ pc = [t \in Threads |-> "off"]
    /\ frame = [t \in Threads |-> NoFrame]
    /\ hist = [t \in Threads |-> NoHist]

\* a thread calls the decorated function: wrapper(*args, **kwargs) is entered
RLCall(t) ==
    /\ UNCHANGED pipe_vars
    /\ rl_pc[t] = "idle"
    /\ n_calls < MaxCalls
    /\ rl_pc' = [rl_pc EXCEPT ![t] = "acquire"]
    /\ n_calls' = n_calls + 1
    /\ UNCHANGED <<max_requests_per_minute, requests_made, lock, wake, now,
                   calls, cur, starts, result>>

\* line 92: with lock (entry)
Acquire(t) ==
    /\ UNCHANGED pipe_vars
    /\ rl_pc[t] = "acquire"
    /\ lock = 0
    /\ lock' = t
    /\ rl_pc' = [rl_pc EXCEPT ![t] = "locked"]
    /\ UNCHANGED <<max_requests_per_minute, requests_made, wake, now,
                   n_calls, calls, cur, starts, result>>

\* lines 93-97: the increment and the check; below the ceiling the block of
\* `with lock` ends, above it time.sleep() starts, the lock still held
IncrementAndCheck(t) ==
    /\ UNCHANGED pipe_vars
    /\ rl_pc[t] = "locked"
    /\ requests_made' = requests_made + 1
    /\ cur' = [cur EXCEPT ![t] = Len(calls) + 1]
    /\ IF ExceedsCeiling(requests_made', max_requests_per_minute)
       THEN /\ rl_pc' = [rl_pc EXCEPT ![t] = "sleeping"]
            /\ wake' = [wake EXCEPT ![t] = NextBoundary(now)]
            /\ calls' = Append(calls, [waits |-> 0, after |-> -1])
            /\ UNCHANGED lock
       ELSE /\ rl_pc' = [rl_pc EXCEPT ![t] = "func"]
            /\ calls' = Append(calls, [waits |-> 0, after |-> requests_made'])
            /\ lock' = 0
            /\ UNCHANGED wake
    /\ UNCHANGED <<max_requests_per_minute, now, n_calls, starts, result>>

\* lines 96-97 with the lock never released after the wait
WakeAndResetKeepsLock(t) ==
    /\ UNCHANGED pipe_vars
    /\ rl_pc[t] = "sleeping"
    /\ now >= wake[t]
    /\ requests_made' = 0
    /\ calls' = [calls EXCEPT ![cur[t]].waits = @ + 1, ![cur[t]].after = 0]
    /\ rl_pc' = [rl_pc EXCEPT ![t] = "func"]
    /\ UNCHANGED <<max_requests_per_minute, lock, wake, now, n_calls, cur, starts, result>>

\* lines 96-97: time.sleep() returns, requests_made = 0, and the block of
\* `with lock` ends
WakeAndReset(t) ==
    /\ UNCHANGED pipe_vars
    /\ rl_pc[t] = "sleeping"
    /\ now >= wake[t]
    /\ requests_made' = 0
    /\ calls' = [calls EXCEPT ![cur[t]].waits = @ + 1, ![cur[t]].after = 0]
    /\ lock' = 0
    /\ rl_pc' = [rl_pc EXCEPT ![t] = "func"]
    /\ UNCHANGED <<max_requests_per_minute, wake, now, n_calls, cur, starts, result>>

\* line 98: func(*args, **kwargs) is invoked, and wrapper returns (or
\* raises) what it returns (or raises)
Invoke(t) ==
    /\ UNCHANGED pipe_vars
    /\ rl_pc[t] = "func"
    /\ starts' = Append(starts, now)
    /\ result' = [result EXCEPT ![t] = FuncResult(ArgsOf(t))]
    /\ rl_pc' = [rl_pc EXCEPT ![t] = "idle"]
    /\ UNCHANGED <<max_requests_per_minute, requests_made, lock, wake, now,
                   n_calls, calls, cur>>

\* the wall clock advances, and the counter starts again at each minute
TickResetsCounter ==
    /\ UNCHANGED pipe_vars
    /\ now < MaxTicks * TickStep
    /\ now' = now + TickStep
    /\ requests_made' = IF (now' \div Minute) # (now \div Minute) THEN 0
                         ELSE requests_made
    /\ UNCHANGED <<max_requests_per_minute, lock, rl_pc, wake,
                   n_calls, calls, cur, starts, result>>

\* the wall clock advances
Tick ==
    /\ UNCHANGED pipe_vars
    /\ now < MaxTicks * TickStep
    /\ now' = now + TickStep
    /\ UNCHANGED <<max_requests_per_minute, requests_made, lock, rl_pc, wake,
                   n_calls, calls, cur, starts, result>>

NextRL ==
    \/ \E t \in Threads : RLCall(t)
    \/ \E t \in Threads : Acquire(t)
    \/ \E t \in Threads : IncrementAndCheck(t)
    \/ \E t \in Threads : WakeAndReset(t)
    \/ \E t \in Threads : Invoke(t)
    \/ Tick

SpecRL == InitRL /\ [][NextRL]_vars

(***************************************************************************)
(* pdf_to_podcast (lines 242-256) and the stages it calls.                  *)
(***************************************************************************)

\* the statements of lines 245-254, in order
DriverSteps == <<"extract", "segment", "choose", "generate", "text_to_speech",
                 "combine", "remove", "log_generated", "map_names", "log_voices">>

\* the position of a statement in the body of the try block
StepIndex(step) == CHOOSE i \in DOMAIN DriverSteps : DriverSteps[i] = step

\* lines 249-251 with os.remove ahead of combine_audio_segments
DriverNextRemoveFirst(step) ==
    CASE step = "text_to_speech" -> "remove"
      [] step = "remove" -> "combine"
      [] step = "combine" -> "log_generated"
      [] step = "log_voices" -> "ended"
      [] OTHER -> DriverSteps[StepIndex(step) + 1]

\* lines 245-254: the statement that follows a statement that completed
DriverNext(step) ==
    IF step = "log_voices" THEN "ended" ELSE DriverSteps[StepIndex(step) + 1]

\* the exceptions the stages raise inside the try block of pdf_to_podcast
StageExceptions == {"KeyError", "FileNotFoundError"}

\* line 255 as `except KeyError`
DriverHandlesKeyErrorOnly(e) == e = "KeyError"

\* line 255 as `except OSError`
DriverHandlesOSErrorOnly(e) == e = "FileNotFoundError"

\* line 255: except Exception
DriverHandles(e) == e \in StageExceptions

\* where control goes when a statement of lines 245-254 raises e
OnRaise(e) == IF DriverHandles(e) THEN "handler" ELSE "raised"

\* the responses the generation capability may give
Responses == SeqsUpTo(SampleLines, MaxLines) \cup ExtraScripts

\* the responses tried for a call started in the function e: those near the
\* character budget are tried on generate_conversational_script called alone
ResponsesOf(e) ==
    IF e = "generate_conversational_script" THEN Responses \cup LongResponses
    ELSE Responses

\* the states a pipeline run starts in: a fresh file system; the counter of
\* the rate limiter at zero (a fresh process) or at the ceiling (the process
\* has made that many rate-limited calls before)
InitPipeline ==
    /\ max_requests_per_minute = DefaultCeiling
    /\ requests_made \in {0, DefaultCeiling}
    /\ \E gone \in TableEdits :
          /\ voice_id_to_name = DictOf(ItemsWithout(gone))
          /\ name_to_voice_id = Inverse(ItemsWithout(gone))
    /\ files = [p \in Paths |-> NoFile]
    /\ entry = [t \in Threads |-> IF t = 1 THEN "pdf_to_podcast" ELSE "none"]
    /\ pc = [t \in Threads |-> IF t = 1 THEN "extract" ELSE "off"]
    /\ frame = [t \in Threads |-> NoFrame]

\* the states a direct call combine_audio_segments(audio_files, output_path)
\* starts in: each given path holds a clip, or no file
InitCombine ==
    /\ max_requests_per_minute = DefaultCeiling
    /\ requests_made = 0
    /\ voice_id_to_name = DictOf(VoiceItems)
    /\ name_to_voice_id = Inverse(VoiceItems)
    /\ \E n \in 0..MaxFiles :
          /\ \E ds \in [1..n -> ClipDurations \cup {-1}] :
                files = [p \in Paths |->
                    IF \E i \in 1..n : p = InputPath(i)
                    THEN LET i == CHOOSE i \in 1..n : p = InputPath(i) IN
                         IF ds[i] = -1 THEN NoFile
                         ELSE AudioFile(Clip(<<0, i>>, ds[i]))
                    ELSE NoFile]
          /\ frame = [t \in Threads |->
                IF t = 1
                THEN [NoFrame EXCEPT !.audio_files = [i \in 1..n |-> InputPath(i)]]
                ELSE NoFrame]
    /\ entry = [t \in Threads |-> IF t = 1 THEN "combine_audio_segments" ELSE "none"]
    /\ pc = [t \in Threads |-> IF t = 1 THEN "combine_loop" ELSE "off"]

\* the states a direct call generate_conversational_script(cleaned_text,
\* host_name, guest_name) starts in
InitGenerate ==
    /\ max_requests_per_minute = DefaultCeiling
    /\ requests_made \in {0, DefaultCeiling}
    /\ voice_id_to_name = DictOf(VoiceItems)
    /\ name_to_voice_id = Inverse(VoiceItems)
    /\ files = [p \in Paths |-> NoFile]
    /\ entry = [t \in Threads |->
          IF t = 1 THEN "generate_conversational_script" ELSE "none"]
    /\ pc = [t \in Threads |-> IF t = 1 THEN "generate" ELSE "off"]
    /\ frame = [t \in Threads |-> NoFrame]

Init ==
    /\ lock = 0
    /\ rl_pc = [t \in Threads |-> "idle"]
    /\ wake = [t \in Threads |-> 0]
    /\ now = 0
    /\ n_calls = 0
    /\ calls = <<>>
    /\ cur = [t \in Threads |-> 0]
    /\ starts = <<>>
    /\ result = [t \in Threads |-> NoResult]
    /\ hist = [t \in Threads |-> NoHist]
    /\ (InitPipeline \/ InitCombine \/ InitGenerate)

\* a statement of pdf_to_podcast starts: it is added to the history
Stepped(r, step) == [hist[r] EXCEPT !.steps = Append(@, step)]

\* line 245: extract_text_from_pdf, which returns "" when it fails (line 116)
Extract(r) ==
    /\ pc[r] = "extract"
    /\ \E ok \in BOOLEAN :
          /\ frame' = [frame EXCEPT ![r].raw_text = IF ok THEN "A. B. C." ELSE ""]
          /\ hist' = [hist EXCEPT ![r] =
                [Stepped(r, "extract") EXCEPT
                    !.faults = IF ok THEN @ ELSE @ \cup {"extraction"},
                    !.log = IF ok THEN @
                            ELSE Append(@, "Error extracting text from PDF")]]
    /\ pc' = [pc EXCEPT ![r] = DriverNext("extract")]
    /\ UNCHANGED <<rl_vars, voice_id_to_name, name_to_voice_id, files, entry>>

\* line 246: clean_and_segment_text, which returns "" when it fails (line 128)
Segment(r) ==
    /\ pc[r] = "segment"
    /\ \E ok \in BOOLEAN :
          /\ frame' = [frame EXCEPT ![r].cleaned_text =
                IF ok /\ frame[r].raw_text # "" THEN "A.\nB.\nC." ELSE ""]
          /\ hist' = [hist EXCEPT ![r] =
                [Stepped(r, "segment") EXCEPT
                    !.faults = IF ok THEN @ ELSE @ \cup {"segmentation"},
                    !.log = IF ok THEN @
                            ELSE Append(@, "Error cleaning and segmenting text")]]
    /\ pc' = [pc EXCEPT ![r] = DriverNext("segment")]
    /\ UNCHANGED <<rl_vars, voice_id_to_name, name_to_voice_id, files, entry>>

\* line 247: choose_host_and_guest (lines 226-233), whose lookups raise
\* KeyError when the name is not a key
Choose(r) ==
    /\ pc[r] = "choose"
    /\ IF host_voice_name \in DOMAIN name_to_voice_id
          /\ guest_voice_name \in DOMAIN name_to_voice_id
       THEN /\ frame' = [frame EXCEPT
                  ![r].host_voice_id = name_to_voice_id[host_voice_name],
                  ![r].guest_voice_id = name_to_voice_id[guest_voice_name]]
            /\ hist' = [hist EXCEPT ![r] = Stepped(r, "choose")]
            /\ pc' = [pc EXCEPT ![r] = DriverNext("choose")]
       ELSE /\ frame' = [frame EXCEPT ![r].exc = "KeyError"]
            /\ hist' = [hist EXCEPT ![r] =
                  [Stepped(r, "choose") EXCEPT
                      !.faults = @ \cup {"lookup"},
                      !.escaped = ~DriverHandles("KeyError")]]
            /\ pc' = [pc EXCEPT ![r] = OnRaise("KeyError")]
    /\ UNCHANGED <<rl_vars, voice_id_to_name, name_to_voice_id, files, entry>>

\* line 248: generate_conversational_script is called: wrapper() is entered
GenerateCall(r) ==
    /\ pc[r] = "generate"
    /\ rl_pc[r] = "idle"
    /\ rl_pc' = [rl_pc EXCEPT ![r] = "acquire"]
    /\ n_calls' = n_calls + 1
    /\ pc' = [pc EXCEPT ![r] = "wrapper"]
    /\ hist' = [hist EXCEPT ![r] =
          IF entry[r] = "pdf_to_podcast" THEN Stepped(r, "generate") ELSE @]
    /\ UNCHANGED <<max_requests_per_minute, requests_made, lock, wake, now,
                   calls, cur, starts, result, voice_id_to_name, name_to_voice_id,
                   files, entry, frame>>

\* where generate_conversational_script returns to
GenerateReturn(r) ==
    IF entry[r] = "pdf_to_podcast" THEN DriverNext("generate") ELSE "ended"

\* lines 98 and 133-170: wrapper() invokes the function, which sends the
\* prompt once and returns the response cut to MAX_SCRIPT_CHARACTERS, or ""
\* when the capability raises (line 170)
GenerateBody(r) ==
    /\ pc[r] = "wrapper"
    /\ rl_pc[r] = "func"
    /\ rl_pc' = [rl_pc EXCEPT ![r] = "idle"]
    /\ starts' = Append(starts, now)
    /\ \/ \E ls \in ResponsesOf(entry[r]) :
             /\ frame' = [frame EXCEPT ![r].script = Truncate(TextOf(ls))]
             /\ hist' = [hist EXCEPT ![r].gen_calls = @ + 1, ![r].lines = ls]
       \/ /\ frame' = [frame EXCEPT ![r].script = <<>>]
          /\ hist' = [hist EXCEPT
                ![r].gen_calls = @ + 1,
                ![r].faults = @ \cup {"generation"},
                ![r].log = Append(@, "Error generating conversational script")]
    /\ result' = [result EXCEPT ![r] = frame'[r].script]
    /\ pc' = [pc EXCEPT ![r] = GenerateReturn(r)]
    /\ UNCHANGED <<max_requests_per_minute, requests_made, lock, wake, now,
                   n_calls, calls, cur, voice_id_to_name, name_to_voice_id, files, entry>>

\* line 192: part.replace("Host:", "").replace("Guest:", "").strip()
SentText(part) == Strip(Remove(Remove(part, HostMarker), GuestMarker))

\* lines 185-190 with the voices of the two branches exchanged
DispatchVoicesExchanged(part, host, guest) ==
    IF Contains(part, HostMarker) THEN [keep |-> TRUE, voice |-> guest]
    ELSE IF Contains(part, GuestMarker) THEN [keep |-> TRUE, voice |-> host]
    ELSE [keep |-> FALSE, voice |-> ""]

\* lines 185-190 without the `continue` of line 190
DispatchKeepUnmarked(part, host, guest) ==
    IF Contains(part, GuestMarker) /\ ~Contains(part, HostMarker)
    THEN [keep |-> TRUE, voice |-> guest]
    ELSE [keep |-> TRUE, voice |-> host]

\* lines 185-190: the voice of a part, or `continue`
Dispatch(part, host, guest) ==
    IF Contains(part, HostMarker) THEN [keep |-> TRUE, voice |-> host]
    ELSE IF Contains(part, GuestMarker) THEN [keep |-> TRUE, voice |-> guest]
    ELSE [keep |-> FALSE, voice |-> ""]

\* lines 179-183: text_to_speech(script, TEMP_AUDIO_PATH, ...) starts
TtsBegin(r) ==
    /\ pc[r] = "text_to_speech"
    /\ LET cleaned == clean_script(frame[r].script) IN
       frame' = [frame EXCEPT ![r].script = cleaned,
                              ![r].speaker_parts = SplitLines(cleaned),
                              ![r].part = 1,
                              ![r].audio_segments = <<>>,
                              ![r].output_path = TEMP_AUDIO_PATH]
    /\ hist' = [hist EXCEPT ![r] = Stepped(r, "text_to_speech")]
    /\ pc' = [pc EXCEPT ![r] = "tts_loop"]
    /\ UNCHANGED <<rl_vars, voice_id_to_name, name_to_voice_id, files, entry>>

\* lines 206-207 as a handler that tries the failed part again
TtsAbortRetries(i) == [pc |-> "tts_loop", part |-> i]

\* lines 206-207 as a handler inside the loop: the failed part is left out
\* and the loop goes on
TtsAbortSkipsPart(i) == [pc |-> "tts_loop", part |-> i + 1]

\* lines 206-207: an exception raised in iteration i of the loop leaves the
\* loop and the rest of the try block; text_to_speech logs it and returns
TtsAbort(i) == [pc |-> DriverNext("text_to_speech"), part |-> i]

\* lines 184-196: one iteration of the loop over speaker_parts.  A part with
\* no marker is skipped; for the others the synthesis capability is called,
\* and it either returns a clip, which is appended, or raises (as decoding
\* may), which line 206 catches: text_to_speech logs and returns
TtsPart(r) ==
    /\ pc[r] = "tts_loop"
    /\ frame[r].part <= Len(frame[r].speaker_parts)
    /\ LET i == frame[r].part
           part == frame[r].speaker_parts[i]
           d == Dispatch(part, frame[r].host_voice_id, frame[r].guest_voice_id)
           call == [part |-> i, voice |-> d.voice, text |-> SentText(part)]
           n == Len(hist[r].synth_calls) + 1
       IN IF ~d.keep
          THEN /\ frame' = [frame EXCEPT ![r].part = i + 1]
               /\ UNCHANGED <<hist, pc>>
          ELSE \/ \E ms \in ClipDurations :
                     /\ frame' = [frame EXCEPT
                           ![r].part = i + 1,
                           ![r].audio_segments = Append(@, Clip(<<r, n>>, ms))]
                     /\ hist' = [hist EXCEPT ![r].synth_calls = Append(@, call)]
                     /\ UNCHANGED pc
               \/ /\ hist' = [hist EXCEPT
                        ![r].synth_calls = Append(@, call),
                        ![r].faults = @ \cup {"synthesis"},
                        ![r].log = Append(@, "Error converting text to speech")]
                  /\ pc' = [pc EXCEPT ![r] = TtsAbort(i).pc]
                  /\ frame' = [frame EXCEPT ![r].part = TtsAbort(i).part]
    /\ UNCHANGED <<rl_vars, voice_id_to_name, name_to_voice_id, files, entry>>

\* what export() leaves at a path when it fails: the file as it was, or a
\* file that was opened and not completed
AfterFailedExport(old) == {old, Corrupt}

\* lines 198-207: the clips are assembled and exported; a failing export is
\* caught by line 206
TtsExport(r) ==
    /\ pc[r] = "tts_loop"
    /\ frame[r].part > Len(frame[r].speaker_parts)
    /\ LET res == Assemble(frame[r].audio_segments)
           path == frame[r].output_path
       IN /\ frame' = [frame EXCEPT ![r].combined = res.audio]
          /\ \/ /\ files' = [files EXCEPT ![path] = AudioFile(res.audio)]
                /\ hist' = [hist EXCEPT ![r].tts_appended = res.appended,
                                        ![r].tts_exported = TRUE]
             \/ /\ \E f \in AfterFailedExport(files[path]) :
                      files' = [files EXCEPT ![path] = f]
                /\ hist' = [hist EXCEPT
                      ![r].tts_appended = res.appended,
                      ![r].faults = @ \cup {"tts_export"},
                      ![r].log = Append(@, "Error converting text to speech")]
    /\ pc' = [pc EXCEPT ![r] = DriverNext("text_to_speech")]
    /\ UNCHANGED <<rl_vars, voice_id_to_name, name_to_voice_id, entry>>

\* line 250: combine_audio_segments([TEMP_AUDIO_PATH], output_audio_path) is
\* called (lines 212-213)
CombineCall(r) ==
    /\ pc[r] = "combine"
    /\ frame' = [frame EXCEPT ![r].audio_files = <<TEMP_AUDIO_PATH>>,
                              ![r].output_path = OutputPathOf(r),
                              ![r].file = 1,
                              ![r].combined = EmptyAudio]
    /\ hist' = [hist EXCEPT ![r] = Stepped(r, "combine")]
    /\ pc' = [pc EXCEPT ![r] = "combine_loop"]
    /\ UNCHANGED <<rl_vars, voice_id_to_name, name_to_voice_id, files, entry>>

\* where combine_audio_segments returns to
CombineReturn(r) ==
    IF entry[r] = "pdf_to_podcast" THEN DriverNext("combine") ELSE "ended"

\* whether AudioSegment.from_file is sure to decode f: not when there is no
\* file or a file left by a failed export, and not when the file holds no
\* audio frame at all (the export of AudioSegment.empty())
Decodes(f) == f.kind = "audio" /\ f.audio.dur > 0

\* lines 214-219: one iteration of the loop over audio_files.  from_file
\* raises for a path that does not decode, which line 222 catches
CombineFile(r) ==
    /\ pc[r] = "combine_loop"
    /\ frame[r].file <= Len(frame[r].audio_files)
    /\ LET i == frame[r].file
           f == files[frame[r].audio_files[i]]
           next == Concat(frame[r].combined, f.audio)
          IN \/ /\ ~Decodes(f)
                /\ hist' = [hist EXCEPT
                      ![r].faults = @ \cup {"decode"},
                      ![r].cmb_returned = TRUE,
                      ![r].log = Append(@, "Error combining audio segments")]
                /\ pc' = [pc EXCEPT ![r] = CombineReturn(r)]
                /\ UNCHANGED frame
             \/ /\ f.kind = "audio"
                /\ hist' = [hist EXCEPT ![r].cmb_appended = i]
                /\ IF OverCeiling(next)
                   THEN /\ frame' = [frame EXCEPT ![r].combined = Limit(next)]
                        /\ pc' = [pc EXCEPT ![r] = "combine_export"]
                   ELSE /\ frame' = [frame EXCEPT ![r].combined = next,
                                                 ![r].file = i + 1]
                        /\ UNCHANGED pc
    /\ UNCHANGED <<rl_vars, voice_id_to_name, name_to_voice_id, files, entry>>

\* lines 220-223: the combined audio is exported; a failing export is caught
CombineExport(r) ==
    /\ \/ pc[r] = "combine_export"
       \/ pc[r] = "combine_loop" /\ frame[r].file > Len(frame[r].audio_files)
    /\ LET path == frame[r].output_path IN
       \/ /\ files' = [files EXCEPT ![path] = AudioFile(frame[r].combined)]
          /\ hist' = [hist EXCEPT
                ![r].cmb_exported = TRUE,
                ![r].cmb_returned = TRUE,
                ![r].cmb_appended = IF @ = -1 THEN 0 ELSE @]
       \/ /\ \E f \in AfterFailedExport(files[path]) :
                files' = [files EXCEPT ![path] = f]
          /\ hist' = [hist EXCEPT
                ![r].faults = @ \cup {"export"},
                ![r].cmb_returned = TRUE,
                ![r].log = Append(@, "Error combining audio segments")]
    /\ pc' = [pc EXCEPT ![r] = CombineReturn(r)]
    /\ UNCHANGED <<rl_vars, voice_id_to_name, name_to_voice_id, entry, frame>>

\* line 251: os.remove(TEMP_AUDIO_PATH), which raises FileNotFoundError when
\* there is no such file
Remove_(r) ==
    /\ pc[r] = "remove"
    /\ IF files[TEMP_AUDIO_PATH].kind = "none"
       THEN /\ frame' = [frame EXCEPT ![r].exc = "FileNotFoundError"]
            /\ hist' = [hist EXCEPT ![r] =
                  [Stepped(r, "remove") EXCEPT
                      !.faults = @ \cup {"deletion"},
                      !.escaped = ~DriverHandles("FileNotFoundError")]]
            /\ pc' = [pc EXCEPT ![r] = OnRaise("FileNotFoundError")]
            /\ UNCHANGED files
       ELSE /\ files' = [files EXCEPT ![TEMP_AUDIO_PATH] = NoFile]
            /\ hist' = [hist EXCEPT ![r] = Stepped(r, "remove")]
            /\ pc' = [pc EXCEPT ![r] = DriverNext("remove")]
            /\ UNCHANGED frame
    /\ UNCHANGED <<rl_vars, voice_id_to_name, name_to_voice_id, entry>>

\* line 252
LogGenerated(r) ==
    /\ pc[r] = "log_generated"
    /\ hist' = [hist EXCEPT ![r] =
          [Stepped(r, "log_generated") EXCEPT !.log = Append(@, "Podcast generated")]]
    /\ pc' = [pc EXCEPT ![r] = DriverNext("log_generated")]
    /\ UNCHANGED <<rl_vars, voice_id_to_name, name_to_voice_id, files, entry, frame>>

\* voice_id_to_name.get(voice_id, "Unknown")
NameOf(voice_id) ==
    IF voice_id \in DOMAIN voice_id_to_name THEN voice_id_to_name[voice_id] ELSE "Unknown"

\* line 253: map_voice_ids_to_names (lines 236-239)
MapNames(r) ==
    /\ pc[r] = "map_names"
    /\ frame' = [frame EXCEPT
          ![r].host_voice_name = NameOf(frame[r].host_voice_id),
          ![r].guest_voice_name = NameOf(frame[r].guest_voice_id)]
    /\ hist' = [hist EXCEPT ![r] = Stepped(r, "map_names")]
    /\ pc' = [pc EXCEPT ![r] = DriverNext("map_names")]
    /\ UNCHANGED <<rl_vars, voice_id_to_name, name_to_voice_id, files, entry>>

\* line 254, after which pdf_to_podcast returns
LogVoices(r) ==
    /\ pc[r] = "log_voices"
    /\ hist' = [hist EXCEPT ![r] =
          [Stepped(r, "log_voices") EXCEPT !.log = Append(@, "Host voice, Guest voice")]]
    /\ pc' = [pc EXCEPT ![r] = DriverNext("log_voices")]
    /\ UNCHANGED <<rl_vars, voice_id_to_name, name_to_voice_id, files, entry, frame>>

\* lines 255-256: the exception is logged and pdf_to_podcast returns
Handler(r) ==
    /\ pc[r] = "handler"
    /\ hist' = [hist EXCEPT ![r].log = Append(@, "Error in pdf_to_podcast"),
                            ![r].caught_at = Len(hist[r].steps)]
    /\ pc' = [pc EXCEPT ![r] = "ended"]
    /\ UNCHANGED <<rl_vars, voice_id_to_name, name_to_voice_id, files, entry, frame>>

\* the wall clock advances while a thread sleeps in the rate limiter
SleepTick ==
    /\ \E t \in Threads : rl_pc[t] = "sleeping" /\ now < wake[t]
    /\ now' = now + TickStep
    /\ UNCHANGED <<max_requests_per_minute, requests_made, lock, rl_pc, wake,
                   n_calls, calls, cur, starts, result, pipe_vars>>

Next ==
    \/ \E r \in Threads : Extract(r)
    \/ \E r \in Threads : Segment(r)
    \/ \E r \in Threads : Choose(r)
    \/ \E r \in Threads : GenerateCall(r)
    \/ \E r \in Threads : Acquire(r)
    \/ \E r \in Threads : IncrementAndCheck(r)
    \/ \E r \in Threads : WakeAndReset(r)
    \/ \E r \in Threads : GenerateBody(r)
    \/ \E r \in Threads : TtsBegin(r)
    \/ \E r \in Threads : TtsPart(r)
    \/ \E r \in Threads : TtsExport(r)
    \/ \E r \in Threads : CombineCall(r)
    \/ \E r \in Threads : CombineFile(r)
    \/ \E r \in Threads : CombineExport(r)
    \/ \E r \in Threads : Remove_(r)
    \/ \E r \in Threads : LogGenerated(r)
    \/ \E r \in Threads : MapNames(r)
    \/ \E r \in Threads : LogVoices(r)
    \/ \E r \in Threads : Handler(r)
    \/ SleepTick

Spec == Init /\ [][Next]_vars

(***************************************************************************)
(* Two runs of pdf_to_podcast in one process, each in a thread of its own   *)
(* and with an output path of its own, from the point at which both have    *)
(* their script and are about to call text_to_speech (line 249).            *)
(***************************************************************************)
\* the two threads that run pdf_to_podcast
TwoRuns == {1, 2}

\* the scripts the two runs have generated
TwoRunScripts == {<<HostLine>>, <<GuestLine, HostLine>>}

InitTwoRuns ==
    /\ max_requests_per_minute = DefaultCeiling
    /\ requests_made = 2
    /\ lock = 0
    /\ rl_pc = [t \in Threads |-> "idle"]
    /\ wake = [t \in Threads |-> 0]
    /\ now = 0
    /\ n_calls = 2
    /\ calls = <<[waits |-> 0, after |-> 1], [waits |-> 0, after |-> 2]>>
    /\ cur = [t \in Threads |-> IF t \in TwoRuns THEN t ELSE 0]
    /\ starts = <<0, 0>>
    /\ voice_id_to_name = DictOf(VoiceItems)
    /\ name_to_voice_id = Inverse(VoiceItems)
    /\ files = [p \in Paths |-> NoFile]
    /\ entry = [t \in Threads |-> IF t \in TwoRuns THEN "pdf_to_podcast" ELSE "none"]
    /\ pc = [t \in Threads |-> IF t \in TwoRuns THEN "text_to_speech" ELSE "off"]
    /\ \E ls \in [TwoRuns -> TwoRunScripts] :
          /\ frame = [t \in Threads |->
                IF t \in TwoRuns
                THEN [NoFrame EXCEPT
                        !.raw_text = "A. B. C.",
                        !.cleaned_text = "A.\nB.\nC.",
                        !.host_voice_id = Inverse(VoiceItems)[host_voice_name],
                        !.guest_voice_id = Inverse(VoiceItems)[guest_voice_name],
                        !.script = Truncate(TextOf(ls[t]))]
                ELSE NoFrame]
          /\ hist = [t \in Threads |->
                IF t \in TwoRuns
                THEN [NoHist EXCEPT
                        !.lines = ls[t],
                        !.gen_calls = 1,
                        !.steps = <<"extract", "segment", "choose", "generate">>]
                ELSE NoHist]
          /\ result = [t \in Threads |->
                IF t \in TwoRuns THEN Truncate(TextOf(ls[t])) ELSE NoResult]

\* lines 249-256 of each run, interleaved
NextTwoRuns ==
    \/ \E r \in Threads : TtsBegin(r)
    \/ \E r \in Threads : TtsPart(r)
    \/ \E r \in Threads : TtsExport(r)
    \/ \E r \in Threads : CombineCall(r)
    \/ \E r \in Threads : CombineFile(r)
    \/ \E r \in Threads : CombineExport(r)
    \/ \E r \in Threads : Remove_(r)
    \/ \E r \in Threads : LogGenerated(r)
    \/ \E r \in Threads : MapNames(r)
    \/ \E r \in Threads : LogVoices(r)
    \/ \E r \in Threads : Handler(r)

SpecTwoRuns == InitTwoRuns /\ [][NextTwoRuns]_vars

(***************************************************************************)
(* rate_limiter with the scheduling that makes calls end: every sleep ends  *)
(* (the clock goes on while a thread sleeps), and a thread that can take    *)
(* its next step in wrapper() takes it.  The clock is read by wrapper()     *)
(* only to sleep, so it is left to stand while no thread sleeps.            *)
(***************************************************************************)
NextRLLive ==
    \/ \E t \in Threads : RLCall(t)
    \/ \E t \in Threads : Acquire(t)
    \/ \E t \in Threads : IncrementAndCheck(t)
    \/ \E t \in Threads : WakeAndReset(t)
    \/ \E t \in Threads : Invoke(t)
    \/ SleepTick

\* a step of a thread inside wrapper(), or of the clock during a sleep
StepInWrapper ==
    \/ \E t \in Threads : Acquire(t)
    \/ \E t \in Threads : IncrementAndCheck(t)
    \/ \E t \in Threads : WakeAndReset(t)
    \/ \E t \in Threads : Invoke(t)
    \/ SleepTick

\* while some thread inside wrapper() can go on, or the clock during a sleep,
\* one of them does; threads need not call again
FairRL == WF_vars(StepInWrapper)

SpecRLLive == InitRL /\ [][NextRLLive]_vars /\ FairRL

(***************************************************************************)
(* Claims about rate_limiter.                                               *)
(***************************************************************************)

\* the invocations of func that start in the 60 seconds from time s
StartsInWindow(s) == {i \in DOMAIN starts : s <= starts[i] /\ starts[i] < s + Minute}

\* C1: no more than max_requests_per_minute invocations of the wrapped
\* function start within any 60-second window, the window that begins when a
\* blocked caller wakes up included.
C1_AtMostCeilingPerWindow ==
    \A i \in DOMAIN starts :
        Cardinality(StartsInWindow(starts[i])) <= max_requests_per_minute

\* C2: a thread that is in the blocking wait caused by exceeding the ceiling
\* does not hold the lock.
C2_SleeperHoldsNoLock ==
    \A t \in Threads : rl_pc[t] = "sleeping" => lock # t

\* C3: in the order in which calls increment the counter, call k waits exactly
\* once if k is a multiple of ceiling + 1 and does not wait otherwise, and a
\* call that has left the locked section leaves the counter at k mod
\* (ceiling + 1): zero after each wait.
C3_WaitOnlyAtCeilingCrossing ==
    \A k \in DOMAIN calls :
        LET crossing == (k % (max_requests_per_minute + 1) = 0) IN
        /\ calls[k].waits <= 1
        /\ ~crossing => calls[k].waits = 0
        /\ calls[k].after # -1 =>
              /\ calls[k].waits = (IF crossing THEN 1 ELSE 0)
              /\ calls[k].after = k % (max_requests_per_minute + 1)

\* C3 witness: two ceiling crossings have happened, each with its wait
C3_Witness ==
    /\ Len(calls) >= 2 * max_requests_per_minute + 2
    /\ calls[max_requests_per_minute + 1].waits = 1
    /\ calls[2 * max_requests_per_minute + 2].waits = 1
    /\ calls[2 * max_requests_per_minute + 2].after = 0

(***************************************************************************)
(* Claims about the assembly of audio (text_to_speech,                      *)
(* combine_audio_segments).                                                 *)
(***************************************************************************)
Runs == {r \in Threads : entry[r] = "pdf_to_podcast"}
Combiners == {r \in Threads : entry[r] = "combine_audio_segments"}

RECURSIVE SumTo(_, _)
\* d1 + ... + dk
SumTo(ds, k) == IF k = 0 THEN 0 ELSE SumTo(ds, k - 1) + ds[k]

\* the first index at which the running sum exceeds the ceiling, or n
FirstOver(ds) ==
    IF \E k \in DOMAIN ds : SumTo(ds, k) > MAX_AUDIO_DURATION_MS
    THEN CHOOSE k \in DOMAIN ds :
            /\ SumTo(ds, k) > MAX_AUDIO_DURATION_MS
            /\ \A j \in 1..(k - 1) : SumTo(ds, j) <= MAX_AUDIO_DURATION_MS
    ELSE Len(ds)

\* min(M, d1 + ... + dk), k being FirstOver
ExpectedDuration(ds) ==
    LET total == SumTo(ds, FirstOver(ds)) IN
    IF total > MAX_AUDIO_DURATION_MS THEN MAX_AUDIO_DURATION_MS ELSE total

\* the durations of the clips text_to_speech has synthesized
ClipDurs(r) == [i \in DOMAIN frame[r].audio_segments |-> frame[r].audio_segments[i].dur]

\* the durations of the files combine_audio_segments was given
FileDurs(r) == [i \in DOMAIN frame[r].audio_files |-> files[frame[r].audio_files[i]].audio.dur]

\* the audio of clips 1..k of segs, before any cut
ClipIds(segs, k) == [i \in 1..k |-> segs[i].clips[1]]

\* text_to_speech has just exported
TtsJustExported(r) == pc[r] = "combine" /\ hist[r].tts_exported

\* combine_audio_segments has just exported and returned
CombineJustExported(r) ==
    /\ hist[r].cmb_exported
    /\ pc[r] = (IF entry[r] = "pdf_to_podcast" THEN "remove" ELSE "ended")

\* C4: the audio exported by text_to_speech and by combine_audio_segments
\* lasts min(M, d1 + ... + dk), k being the first index at which the running
\* sum of the clip durations exceeds M (n if it never does); it never lasts
\* more than M, and it is made of clips 1..k only.
C4_ExportedDuration ==
    \A r \in Threads :
        /\ TtsJustExported(r) =>
              LET ds == ClipDurs(r)
                  out == files[TEMP_AUDIO_PATH] IN
              /\ out.kind = "audio"
              /\ out.audio.dur = ExpectedDuration(ds)
              /\ out.audio.dur <= MAX_AUDIO_DURATION_MS
              /\ hist[r].tts_appended = FirstOver(ds)
              /\ out.audio.clips = ClipIds(frame[r].audio_segments, FirstOver(ds))
        /\ CombineJustExported(r) =>
              LET ds == FileDurs(r)
                  out == files[frame[r].output_path] IN
              /\ out.kind = "audio"
              /\ out.audio.dur = ExpectedDuration(ds)
              /\ out.audio.dur <= MAX_AUDIO_DURATION_MS
              /\ hist[r].cmb_appended = FirstOver(ds)

\* C4 witness: text_to_speech exported three clips of which the second
\* crossed the ceiling: the export lasts M and holds two clips
C4_Witness ==
    \E r \in Runs :
        /\ TtsJustExported(r)
        /\ Len(frame[r].audio_segments) = 3
        /\ FirstOver(ClipDurs(r)) = 2
        /\ SumTo(ClipDurs(r), 2) > MAX_AUDIO_DURATION_MS
        /\ files[TEMP_AUDIO_PATH].audio.dur = MAX_AUDIO_DURATION_MS

\* C5: once the running duration of the clips of lines 1..k exceeds the
\* ceiling, the synthesis capability is not called for any later line: every
\* synthesis call is made while the clips synthesized before it last no more
\* than the ceiling together.
C5_NoSynthesisAfterCrossing ==
    \A r \in Runs :
        \A n \in DOMAIN hist[r].synth_calls :
            LET before == IF n - 1 <= Len(frame[r].audio_segments)
                          THEN n - 1 ELSE Len(frame[r].audio_segments) IN
            SumTo(ClipDurs(r), before) <= MAX_AUDIO_DURATION_MS

(***************************************************************************)
(* Claims about the dispatch of script lines.                               *)
(***************************************************************************)
\* the line is written with the fragment m
HasFrag(l, m) == \E j \in DOMAIN l : l[j] = m

\* every marker of the line is one of its fragments
IsPlain(l) == ~HasFrag(l, PieceHo) /\ ~HasFrag(l, PieceSt)

\* the utterance of a plain line: its fragments other than the markers and
\* the asterisks, without the whitespace around them
Utterance(l) ==
    Strip(Flatten(SelectSeq(l, LAMBDA f : f \notin {HostMarker, GuestMarker, Star})))

\* the parts text_to_speech has gone through: those before frame.part, and
\* the part of the last synthesis call
Processed(r) ==
    {i \in DOMAIN frame[r].speaker_parts :
        \/ i < frame[r].part
        \/ \E n \in DOMAIN hist[r].synth_calls : hist[r].synth_calls[n].part = i}

\* the line a part was written as ("" when the response was empty)
LineOf(r, i) == IF i \in DOMAIN hist[r].lines THEN hist[r].lines[i] ELSE <<>>

\* the synthesis calls are made in script order, at most one for each part
InScriptOrder(r) ==
    /\ \A m, n \in DOMAIN hist[r].synth_calls :
          m < n => hist[r].synth_calls[m].part < hist[r].synth_calls[n].part
    /\ Len(hist[r].synth_calls) <= Len(frame[r].speaker_parts)

\* a processed part has a synthesis call if and only if its line has a marker
KeptIffMarked(r) ==
    \A i \in Processed(r) :
        (\E n \in DOMAIN hist[r].synth_calls : hist[r].synth_calls[n].part = i)
            <=> (HasFrag(LineOf(r, i), HostMarker) \/ HasFrag(LineOf(r, i), GuestMarker))

Range(q) == {q[i] : i \in DOMAIN q}

\* C7: if the generation capability raises, generate_conversational_script
\* returns "" without raising; text_to_speech then makes no synthesis call
\* and, its export working, exports audio of duration zero; and the run goes
\* on through combine_audio_segments to the last statement.
C7_GenerationFailure ==
    \A r \in Runs :
        "generation" \in hist[r].faults =>
            /\ hist[r].lines = <<>>
            /\ hist[r].synth_calls = <<>>
            /\ ~hist[r].escaped
            /\ pc[r] = "text_to_speech" => frame[r].script = <<>>
            /\ pc[r] \in {"text_to_speech", "tts_loop"} =>
                  hist[r].caught_at = -1 /\ frame[r].exc = ""
            /\ "tts_export" \notin hist[r].faults =>
                  /\ pc[r] \notin {"handler", "raised"}
                  /\ hist[r].caught_at = -1
                  /\ pc[r] = "combine" =>
                        /\ hist[r].tts_exported
                        /\ files[TEMP_AUDIO_PATH] = AudioFile(EmptyAudio)
                  /\ pc[r] = "ended" =>
                        /\ hist[r].steps = DriverSteps
                        /\ hist[r].cmb_returned

\* C7 witness: a run in which only the generation failed has ended
C7_Witness ==
    \E r \in Runs :
        /\ hist[r].faults = {"generation"}
        /\ hist[r].gen_calls = 1
        /\ hist[r].tts_exported
        /\ pc[r] = "ended"

FaultLog(f) ==
    CASE f = "extraction" -> "Error extracting text from PDF"
      [] f = "segmentation" -> "Error cleaning and segmenting text"
      [] f = "generation" -> "Error generating conversational script"
      [] f \in {"synthesis", "tts_export"} -> "Error converting text to speech"
      [] f \in {"decode", "export"} -> "Error combining audio segments"
      [] f \in {"lookup", "deletion"} -> "Error in pdf_to_podcast"

\* q is the sequence of the first Len(q) elements of w
IsPrefix(q, w) == Len(q) <= Len(w) /\ \A i \in DOMAIN q : q[i] = w[i]

\* C9: pdf_to_podcast never raises to its caller: every failure is caught
\* and logged and the run ends; after a failure caught by line 255 no later
\* statement is executed, and no statement is executed twice.
C9_NeverRaises ==
    \A r \in Runs :
        /\ ~hist[r].escaped
        /\ pc[r] # "raised"
        /\ IsPrefix(hist[r].steps, DriverSteps)
        /\ pc[r] = "ended" =>
              \A f \in hist[r].faults : FaultLog(f) \in Range(hist[r].log)
        /\ hist[r].caught_at # -1 =>
              /\ pc[r] = "ended"
              /\ Len(hist[r].steps) = hist[r].caught_at
              /\ hist[r].faults \cap {"lookup", "deletion"} # {}
        /\ (hist[r].faults \cap {"lookup", "deletion"} # {}) =>
              pc[r] \in {"handler", "ended"}

\* C9 witness: synthesis failed, then the combination, then the deletion of
\* the temporary file, which line 255 caught
C9_Witness ==
    \E r \in Runs :
        /\ pc[r] = "ended"
        /\ {"synthesis", "decode", "deletion"} \subseteq hist[r].faults
        /\ hist[r].caught_at = 7

\* C10: when a run of pdf_to_podcast has ended the temporary file does not
\* exist, and it is never deleted before combine_audio_segments has returned.
C10_TempFileGone ==
    \A r \in Runs :
        /\ pc[r] = "ended" => files[TEMP_AUDIO_PATH] = NoFile
        /\ "remove" \in Range(hist[r].steps) => hist[r].cmb_returned

\* C10 witness: a run that exported the temporary file and the output has
\* ended, the temporary file deleted
C10_Witness ==
    \E r \in Runs :
        /\ pc[r] = "ended"
        /\ hist[r].tts_exported
        /\ hist[r].cmb_exported
        /\ "remove" \in Range(hist[r].steps)
        /\ hist[r].faults = {}
        /\ files[TEMP_AUDIO_PATH] = NoFile
        /\ files[OUTPUT_AUDIO_FILE_PATH].kind = "audio"

(***************************************************************************)
(* Claims about retries and the abort of text_to_speech.                    *)
(***************************************************************************)
\* the synthesis calls that returned a clip: all of them, or all but the last
\* when the last one failed
ClipsMatchCalls(r) ==
    Len(frame[r].audio_segments) =
        Len(hist[r].synth_calls) - (IF "synthesis" \in hist[r].faults THEN 1 ELSE 0)

\* C11: in a run the generation capability is called at most once, after the
\* wait of the rate limiter if there is one, and whether or not it fails; the
\* synthesis capability is called at most once for each kept line, in script
\* order, and not again once a call of it has failed (the failed call is the
\* last one).
C11_NoRetry ==
    \A r \in Runs :
        /\ hist[r].gen_calls <= 1
        /\ hist[r].gen_calls = 1 <=> pc[r] \notin {"extract", "segment", "choose",
                                                   "generate", "wrapper", "handler",
                                                   "raised", "ended"}
                                    \/ (pc[r] \in {"handler", "ended"}
                                        /\ "lookup" \notin hist[r].faults)
        /\ InScriptOrder(r)
        /\ KeptIffMarked(r)
        /\ ClipsMatchCalls(r)
        /\ "synthesis" \in hist[r].faults => pc[r] \notin {"text_to_speech", "tts_loop"}

\* C11 witness: the rate limiter waited before the one generation call, and
\* the run ended after the second of three kept lines failed to synthesize:
\* two synthesis calls were made
C11_Witness ==
    \E r \in Runs :
        /\ pc[r] = "ended"
        /\ hist[r].gen_calls = 1
        /\ Len(calls) = 1 /\ calls[1].waits = 1
        /\ "synthesis" \in hist[r].faults
        /\ hist[r].lines = <<HostLine, GuestLine, HostLine>>
        /\ Len(hist[r].synth_calls) = 2

(***************************************************************************)
(* Claims about the character budget of the script.                         *)
(***************************************************************************)
\* generate_conversational_script has just returned the script of a response
JustGenerated(r) ==
    /\ hist[r].gen_calls = 1
    /\ "generation" \notin hist[r].faults
    /\ pc[r] = (IF entry[r] = "pdf_to_podcast" THEN "text_to_speech" ELSE "ended")
    /\ entry[r] \in {"pdf_to_podcast", "generate_conversational_script"}

\* C12: the script generate_conversational_script returns is the raw
\* response when that has at most MAX_SCRIPT_CHARACTERS characters, and
\* otherwise its first MAX_SCRIPT_CHARACTERS characters, exactly that many.
C12_ScriptBudget ==
    \A r \in Threads :
        JustGenerated(r) =>
            LET raw == TextOf(hist[r].lines)
                out == frame[r].script IN
            /\ Len(out) = (IF Len(raw) > MAX_SCRIPT_CHARACTERS
                           THEN MAX_SCRIPT_CHARACTERS ELSE Len(raw))
            /\ \A i \in 1..Len(out) : out[i] = raw[i]

\* C12 witness: a response one character over the budget was returned cut
C12_Witness ==
    \E r \in Threads :
        /\ JustGenerated(r)
        /\ Len(TextOf(hist[r].lines)) = MAX_SCRIPT_CHARACTERS + 1
        /\ Len(frame[r].script) = MAX_SCRIPT_CHARACTERS
        /\ frame[r].script[MAX_SCRIPT_CHARACTERS]
              # TextOf(hist[r].lines)[MAX_SCRIPT_CHARACTERS + 1]

(***************************************************************************)
(* Claims about the voice table.                                            *)
(***************************************************************************)
\* map_voice_ids_to_names has returned in run r
NamesMapped(r) == "map_names" \in Range(hist[r].steps) /\ pc[r] # "map_names"

\* C13: for every id of voice_id_to_name, the id that name_to_voice_id gives
\* for its name is that id (so the names are distinct); and the names
\* map_voice_ids_to_names gives for the ids choose_host_and_guest chose are the
\* names they were chosen by.
C13_RoundTrip ==
    /\ \A id \in DOMAIN voice_id_to_name :
          /\ NameOf(id) \in DOMAIN name_to_voice_id
          /\ name_to_voice_id[NameOf(id)] = id
    /\ Cardinality({voice_id_to_name[id] : id \in DOMAIN voice_id_to_name})
          = Cardinality(DOMAIN voice_id_to_name)
    /\ \A r \in Runs :
          NamesMapped(r) =>
              /\ frame[r].host_voice_name = host_voice_name
              /\ frame[r].guest_voice_name = guest_voice_name
              /\ name_to_voice_id[frame[r].host_voice_name] = frame[r].host_voice_id
              /\ name_to_voice_id[frame[r].guest_voice_name] = frame[r].guest_voice_id

\* C13 witness: with the twenty voices of the source, a run has mapped the
\* ids of its host and guest back to "Eric" and "Brian"
C13_Witness ==
    \E r \in Runs :
        /\ Cardinality(DOMAIN voice_id_to_name) = 20
        /\ Cardinality(DOMAIN name_to_voice_id) = 20
        /\ NamesMapped(r)
        /\ frame[r].host_voice_name = "Eric"
        /\ frame[r].guest_voice_name = "Brian"
        /\ frame[r].host_voice_id = "cjVigY5qzO86Huf0OWal"

(***************************************************************************)
(* Claims about the completion of rate-limited calls.                       *)
(***************************************************************************)
\* the threads that are inside wrapper()
InWrapper == {t \in Threads : rl_pc[t] # "idle"}

\* func has been invoked once for every call that has returned, and not yet
\* for the calls that are inside wrapper(); what a call returned is what func
\* gives for the arguments of the caller
InvokedOncePerCall ==
    /\ Len(starts) = n_calls - Cardinality(InWrapper)
    /\ \A t \in Threads :
          result[t] # NoResult => result[t] = FuncResult(ArgsOf(t))

\* C14: every call of the rate-limited function, whether it waits or not and
\* with any number of callers, invokes func once with the arguments of the
\* call and returns its result; no thread stays inside wrapper() for ever:
\* whenever calls are under way, a state follows in which all have returned.
C14_EveryCallCompletes ==
    /\ []InvokedOncePerCall
    /\ (InWrapper # {}) ~> (InWrapper = {})

\* C14 witness: all MaxCalls calls have returned, two of them after a wait,
\* and every thread has made a call
C14_Witness ==
    /\ n_calls = MaxCalls
    /\ InWrapper = {}
    /\ Len(starts) = MaxCalls
    /\ Cardinality({k \in DOMAIN calls : calls[k].waits = 1}) >= 2
    /\ \A t \in Threads : result[t] = FuncResult(ArgsOf(t))

(***************************************************************************)
(* Claims about a failing synthesis.                                        *)
(***************************************************************************)
\* C15: when a synthesis call (or the decoding of what it returned) raises
\* in text_to_speech, the stage ends there: the failed call is the last one,
\* no part after it is gone through, nothing is assembled or exported (the
\* temporary path holds no file, the clips of the earlier parts are left
\* unused), the failure is logged, and text_to_speech returns to its caller,
\* which goes on to its next statement.
C15_SynthesisFailureAborts ==
    \A r \in Runs :
        "synthesis" \in hist[r].faults =>
            LET n == Len(hist[r].synth_calls) IN
            /\ n >= 1
            /\ Len(frame[r].audio_segments) = n - 1
            /\ hist[r].synth_calls[n].part = frame[r].part
            /\ \A i \in Processed(r) : i <= hist[r].synth_calls[n].part
            /\ ~hist[r].tts_exported
            /\ hist[r].tts_appended = -1
            /\ "tts_export" \notin hist[r].faults
            /\ files[TEMP_AUDIO_PATH] = NoFile
            /\ "Error converting text to speech" \in Range(hist[r].log)
            /\ pc[r] \notin {"text_to_speech", "tts_loop", "raised"}
            /\ ~hist[r].escaped
            /\ pc[r] = "combine" => frame[r].exc = "" /\ hist[r].caught_at = -1

\* C15 witness: the second of three kept lines failed to synthesize; the
\* clip of the first line is left unused and the run is at its next statement
C15_Witness ==
    \E r \in Runs :
        /\ "synthesis" \in hist[r].faults
        /\ hist[r].lines = <<HostLine, GuestLine, HostLine>>
        /\ Len(hist[r].synth_calls) = 2
        /\ Len(frame[r].audio_segments) = 1
        /\ pc[r] = "combine"
        /\ files[TEMP_AUDIO_PATH] = NoFile

(***************************************************************************)
(* Claims about the counter of the rate limiter.                            *)
(***************************************************************************)
\* a thread is in the sleep of line 96
Sleeping == \E t \in Threads : rl_pc[t] = "sleeping"

\* the counter is the number of increments since the last reset: none is lost
CounterCountsCalls ==
    /\ requests_made >= 0
    /\ requests_made <= max_requests_per_minute + 1
    /\ requests_made = (IF Sleeping THEN max_requests_per_minute + 1
                        ELSE Len(calls) % (max_requests_per_minute + 1))

\* a step that changes the counter is the increment or the reset after a
\* wait, made by the thread that holds the lock
CounterStep ==
    /\ requests_made' # requests_made =>
          \E t \in Threads :
              /\ lock = t
              /\ \/ /\ rl_pc[t] = "locked"
                    /\ requests_made' = requests_made + 1
                    /\ Len(calls') = Len(calls) + 1
                 \/ /\ rl_pc[t] = "sleeping"
                    /\ rl_pc'[t] = "func"
                    /\ requests_made = max_requests_per_minute + 1
                    /\ requests_made' = 0
    /\ Len(calls') # Len(calls) => requests_made' = requests_made + 1
    /\ now' # now => requests_made' = requests_made
    /\ starts' # starts => requests_made' = requests_made

\* C16: requests_made changes only by +1 at a call and by the reset to 0
\* after a wait, both by the thread that holds the lock; the clock and the
\* wrapped function do not change it; no increment is lost and
\* 0 <= requests_made <= ceiling + 1 in every state.
C16_CounterChanges == []CounterCountsCalls /\ [][CounterStep]_vars

\* C16 witness: with two threads calling, the counter was reset after a wait
\* that lasted past a minute boundary and has been incremented again
C16_Witness ==
    /\ requests_made = 1
    /\ Len(calls) = max_requests_per_minute + 2
    /\ calls[max_requests_per_minute + 1].waits = 1
    /\ now >= Minute
    /\ \A t \in Threads : cur[t] # 0
    /\ Len(starts) >= max_requests_per_minute + 1

(***************************************************************************)
(* Claims about lines with both markers, and about the success message.     *)
(***************************************************************************)
\* the position of the fragment m in the line l
FragIndex(l, m) == CHOOSE j \in DOMAIN l : l[j] = m

\* the line has both markers
HasBoth(l) == HasFrag(l, HostMarker) /\ HasFrag(l, GuestMarker)

\* C17: a line with both markers is synthesized once, with the voice of the
\* marker that comes first in the line.
C17_FirstMarkerWins ==
    \A r \in Runs :
        /\ InScriptOrder(r)
        /\ \A n \in DOMAIN hist[r].synth_calls :
              LET c == hist[r].synth_calls[n]
                  l == LineOf(r, c.part) IN
              HasBoth(l) =>
                  c.voice = (IF FragIndex(l, HostMarker) < FragIndex(l, GuestMarker)
                             THEN frame[r].host_voice_id
                             ELSE frame[r].guest_voice_id)

\* C18: "Podcast generated" (and the log of the voices after it) is logged
\* only in a run in which combine_audio_segments exported the output file and
\* neither text_to_speech nor combine_audio_segments failed.
C18_GeneratedOnlyIfExported ==
    \A r \in Runs :
        "Podcast generated" \in Range(hist[r].log) =>
            /\ hist[r].cmb_exported
            /\ files[frame[r].output_path].kind = "audio"
            /\ hist[r].faults \cap {"synthesis", "tts_export", "decode", "export"} = {}

(***************************************************************************)
(* Claims about concurrent runs.                                            *)
(***************************************************************************)
\* every clip of the audio a was synthesized by the run of thread r
OwnAudio(a, r) == \A i \in DOMAIN a.clips : a.clips[i][1] = r

\* the run of thread r has written the temporary file and not yet deleted it
HoldsTempFile(r) ==
    /\ hist[r].tts_exported
    /\ "remove" \notin Range(hist[r].steps)

\* C19: two concurrent runs with different output paths do not interfere
\* through the temporary path: the output a run exported is made of the
\* audio synthesized from its own script; the temporary file a run has
\* written holds that run's audio until the run deletes it, and is there when
\* the run deletes it.
C19_RunsDoNotInterfere ==
    \A r \in Runs :
        /\ hist[r].cmb_exported /\ files[OutputPathOf(r)].kind = "audio"
              => OwnAudio(files[OutputPathOf(r)].audio, r)
        /\ HoldsTempFile(r) =>
              /\ files[TEMP_AUDIO_PATH].kind = "audio"
              /\ OwnAudio(files[TEMP_AUDIO_PATH].audio, r)
        /\ hist[r].tts_exported => "deletion" \notin hist[r].faults

====
